---------------------------- MODULE Spec2Model ----------------------------
(* Model of orbital/elements.py: the KeplerianElements class.               *)
(*                                                                          *)
(* Number representation.  Python floats are modelled by fixed-point        *)
(* integers:                                                                *)
(*   - angles are counted in units of pi/Pi radians (Pi == 22, so a unit is *)
(*     1/7 rad to three digits and 2*pi is TwoPi == 44 units);              *)
(*   - dimensionless reals (eccentricity, cosines, unit-vector components)  *)
(*     are scaled by Scale;                                                 *)
(*   - lengths, speeds, times and mu are plain integers; "/" truncates.     *)
(* NaN (the result of 0/0 under numpy) is the integer NaN, which lies       *)
(* outside the range of every angle the class stores.                       *)
EXTENDS Integers, Sequences, FiniteSets, TLC

(***************************************************************************)
(* Arithmetic of the math / numpy / scipy functions the class imports.     *)
(***************************************************************************)
Pi == 22
TwoPi == 2 * Pi
Scale == 100
RadUnit == 7
NaN == 0 - 1

Abs(x) == IF x < 0 THEN 0 - x ELSE x

\* scipy.sign
sign(x) == IF x > 0 THEN 1 ELSE IF x < 0 THEN 0 - 1 ELSE 0

\* float division, truncated to the fixed-point grid (y # 0)
Quot(x, y) == sign(x) * sign(y) * (Abs(x) \div Abs(y))

RECURSIVE SqrtIter(_, _, _)
SqrtIter(x, lo, hi) ==
    IF lo >= hi THEN lo
    ELSE LET mid == (lo + hi + 1) \div 2
         IN  IF mid * mid <= x THEN SqrtIter(x, mid, hi)
             ELSE SqrtIter(x, lo, mid - 1)

\* math.sqrt on the integer grid (x >= 0)
sqrt(x) == SqrtIter(x, 0, 46340)

RECURSIVE CbrtIter(_, _, _)
CbrtIter(x, lo, hi) ==
    IF lo >= hi THEN lo
    ELSE LET mid == (lo + hi + 1) \div 2
         IN  IF mid * mid * mid <= x THEN CbrtIter(x, mid, hi)
             ELSE CbrtIter(x, lo, mid - 1)

\* x ** (1 / 3) on the integer grid (x >= 0)
cbrt(x) == CbrtIter(x, 0, 1290)

\* orbital.utilities.mod: the modulus carries the sign of the divisor
mod(x, y) == x % y

\* sin of the first-quadrant angles 0 .. Pi/2, scaled by Scale
SinTable == <<0, 14, 28, 42, 54, 65, 76, 84, 91, 96, 99, 100>>

\* math.sin, math.cos of an angle in units of pi/Pi
sin(x) ==
    LET y == x % TwoPi
    IN  IF y <= Pi \div 2 THEN SinTable[y + 1]
        ELSE IF y <= Pi THEN SinTable[Pi - y + 1]
        ELSE IF y <= Pi + Pi \div 2 THEN 0 - SinTable[y - Pi + 1]
        ELSE 0 - SinTable[TwoPi - y + 1]

cos(x) == sin(x + Pi \div 2)

\* math.acos of a cosine scaled by Scale: the angle of 0 .. Pi whose cosine
\* is nearest (the smaller angle on a tie); the cosine falls as the angle
\* grows, so the scan stops where the distance stops falling.  Callers test
\* the domain first.
RECURSIVE AcosIter(_, _)
AcosIter(d, k) ==
    IF k < Pi /\ Abs(cos(k + 1) - d) < Abs(cos(k) - d)
    THEN AcosIter(d, k + 1)
    ELSE k

acos(d) == AcosIter(d, 0)

\* math.acos raises ValueError ("math domain error") outside [-1, 1]
AcosDomainError(d) == Abs(d) > Scale

\* numpy.dot, numpy.cross, numpy.linalg.norm on 3-vectors
dot(u, w) == u[1] * w[1] + u[2] * w[2] + u[3] * w[3]

cross(u, w) == << u[2] * w[3] - u[3] * w[2],
                  u[3] * w[1] - u[1] * w[3],
                  u[1] * w[2] - u[2] * w[1] >>

norm(u) == sqrt(dot(u, u))

(***************************************************************************)
(* orbital.utilities: the anomaly conversions and the helpers of the       *)
(* constructors.                                                           *)
(***************************************************************************)
\* M = E - e sin E, reduced into [0, 2 pi)
mean_anomaly_from_eccentric(e, E) ==
    mod(E - Quot(RadUnit * e * sin(E), Scale * Scale), TwoPi)

\* cos E = (e + cos f) / (1 + e cos f), E in the half turn of f
eccentric_anomaly_from_true(e, f) ==
    LET g == mod(f, TwoPi)
        c == Quot((e + cos(g)) * Scale * Scale, Scale * Scale + e * cos(g))
        E == acos(c)
    IN  IF g <= Pi THEN E ELSE mod(TwoPi - E, TwoPi)

mean_anomaly_from_true(e, f) ==
    mean_anomaly_from_eccentric(e, eccentric_anomaly_from_true(e, f))

\* distance of two angles around the circle
AngleDist(x, y) ==
    LET d == mod(x - y, TwoPi) IN IF d <= Pi THEN d ELSE TwoPi - d

\* the solver of Kepler's equation M = E - e sin E.  The mean anomaly grows
\* with E, so bisection finds the last grid angle E whose mean anomaly is
\* <= M; the solver returns it, or its successor when that one is nearer.
RECURSIVE KeplerIter(_, _, _, _)
KeplerIter(e, M, lo, hi) ==
    IF lo >= hi THEN lo
    ELSE LET mid == (lo + hi + 1) \div 2
         IN  IF mean_anomaly_from_eccentric(e, mid) <= M
             THEN KeplerIter(e, M, mid, hi)
             ELSE KeplerIter(e, M, lo, mid - 1)

eccentric_anomaly_from_mean(e, M) ==
    LET nearer(Mnorm, E0, E1) ==
            IF AngleDist(mean_anomaly_from_eccentric(e, E1), Mnorm)
                 < AngleDist(mean_anomaly_from_eccentric(e, E0), Mnorm)
            THEN E1 ELSE E0
        solve(Mnorm, E0) == nearer(Mnorm, E0, mod(E0 + 1, TwoPi))
    IN  solve(mod(M, TwoPi), KeplerIter(e, mod(M, TwoPi), 0, TwoPi - 1))

\* cos f = (cos E - e) / (1 - e cos E), f in the half turn of E
true_anomaly_from_eccentric(e, E) ==
    LET g == mod(E, TwoPi)
        c == Quot((cos(g) - e) * Scale * Scale, Scale * Scale - e * cos(g))
        f == acos(c)
    IN  IF g <= Pi THEN f ELSE mod(TwoPi - f, TwoPi)

true_anomaly_from_mean(e, M) ==
    true_anomaly_from_eccentric(e, eccentric_anomaly_from_mean(e, M))

\* r = a (1 - e^2) / (1 + e cos f)
orbit_radius(a, e, f) ==
    Quot(a * (Scale * Scale - e * e), Scale * Scale + e * cos(f))

radius_from_altitude(altitude, body) == altitude + body.mean_radius

\* a = (ra + rp) / 2, e = (ra - rp) / (ra + rp)
elements_for_apsides(apocenter_radius, pericenter_radius) ==
    << Quot(apocenter_radius + pericenter_radius, 2),
       Quot((apocenter_radius - pericenter_radius) * Scale,
            apocenter_radius + pericenter_radius) >>

(***************************************************************************)
(* The collaborators of the class: a body and the arguments of the calls.  *)
(***************************************************************************)
\* body=None, the default of every constructor
NoBody == [none |-> TRUE, mu |-> 0, mean_radius |-> 0,
           apoapsis_names |-> << >>, periapsis_names |-> << >>]

earth == [none |-> FALSE, mu |-> 1000000, mean_radius |-> 20,
          apoapsis_names |-> <<"apoapsis", "apogee">>,
          periapsis_names |-> <<"periapsis", "perigee">>]

\* an exception leaves the method at once: the instance as it then is
Raise(self, exc) == [self |-> self, exc |-> exc]
Return(self) == [self |-> self, exc |-> "none"]

(***************************************************************************)
(* class KeplerianElements                                                  *)
(***************************************************************************)
KeplerianElements(a, e, i, raan, arg_pe, M0, body, ref_epoch) ==
    [a |-> a, e |-> e, i |-> i, raan |-> raan, arg_pe |-> arg_pe, M0 |-> M0,
     M |-> M0, body |-> body, ref_epoch |-> ref_epoch, t |-> 0]

\* property n: mean motion, in angle units per unit of time
n(self) == sqrt(Quot(RadUnit * RadUnit * self.body.mu,
                     self.a * self.a * self.a))

\* a slip: M0 fixed with the mean motion of the semimajor axis held before
\* (of the new one where none was held)
a_setter_stale_n(self, value) ==
    IF self.body.none THEN Raise([self EXCEPT !.a = value], "AttributeError")
    ELSE Return([self EXCEPT
                    !.a = value,
                    !.M0 = mod(self.M - n(IF self.a = 0
                                          THEN [self EXCEPT !.a = value]
                                          ELSE self) * self.t, TwoPi)])

a_setter(self, value) ==
    LET stored == [self EXCEPT !.a = value]
    IN  IF self.body.none THEN Raise(stored, "AttributeError")
        ELSE Return([stored EXCEPT
                        !.M0 = mod(stored.M - n(stored) * stored.t, TwoPi)])

\* a slip: the value stored as given
M_setter_unreduced(self, value) == Return([self EXCEPT !.M = value])

M_setter(self, value) == Return([self EXCEPT !.M = mod(value, TwoPi)])

\* a slip: the epoch taken for the time since ref_epoch
epoch_setter_absolute(self, value) ==
    IF self.body.none THEN Raise(self, "AttributeError")
    ELSE Return([self EXCEPT !.M = mod(self.M0 + n(self) * value, TwoPi),
                             !.t = value])

epoch_setter(self, value) ==
    LET t == value - self.ref_epoch
    IN  IF self.body.none THEN Raise(self, "AttributeError")
        ELSE Return([self EXCEPT !.M = mod(self.M0 + n(self) * t, TwoPi),
                                 !.t = t])

\* a slip: the time stored, the mean anomaly left as it was
t_setter_keeps_M(self, value) ==
    IF self.body.none THEN Raise(self, "AttributeError")
    ELSE Return([self EXCEPT !.t = value])

t_setter(self, value) ==
    IF self.body.none THEN Raise(self, "AttributeError")
    ELSE Return([self EXCEPT !.M = mod(self.M0 + n(self) * value, TwoPi),
                             !.t = value])

n_setter(self, value) ==
    IF self.body.none THEN Raise(self, "AttributeError")
    ELSE a_setter(self, cbrt(Quot(self.body.mu * RadUnit * RadUnit,
                                  value * value)))

T_setter(self, value) ==
    IF self.body.none THEN Raise(self, "AttributeError")
    ELSE a_setter(self, cbrt(Quot(self.body.mu * value * value,
                                  Quot(TwoPi * TwoPi, RadUnit * RadUnit))))

apocenter_radius(self) == Quot((Scale + self.e) * self.a, Scale)

pericenter_radius(self) == Quot((Scale - self.e) * self.a, Scale)

E_setter(self, value) ==
    M_setter(self, mean_anomaly_from_eccentric(self.e, value))

\* property f: true anomaly
f(self) == true_anomaly_from_mean(self.e, self.M)

f_setter(self, value) ==
    M_setter(self, mean_anomaly_from_true(self.e, value))

\* property U: radial unit vector, components scaled by Scale
U(self) ==
    LET vec(sin_u, cos_u, sin_raan, cos_raan, sin_i, cos_i) ==
            << Quot(cos_u * cos_raan, Scale)
                 - Quot(sin_u * sin_raan * cos_i, Scale * Scale),
               Quot(cos_u * sin_raan, Scale)
                 + Quot(sin_u * cos_raan * cos_i, Scale * Scale),
               Quot(sin_u * sin_i, Scale) >>
        at(u) == vec(sin(u), cos(u), sin(self.raan), cos(self.raan),
                     sin(self.i), cos(self.i))
    IN  at(self.arg_pe + f(self))

\* property r: position vector
r(self) ==
    LET times(radius, dir) ==
            << Quot(radius * dir[1], Scale), Quot(radius * dir[2], Scale),
               Quot(radius * dir[3], Scale) >>
    IN  times(orbit_radius(self.a, self.e, f(self)), U(self))

\* a=None is the integer 0 until ke.T = period stores the semimajor axis
with_period(period, body, e, i, raan, arg_pe, M0, ref_epoch) ==
    T_setter(KeplerianElements(0, e, i, raan, arg_pe, M0, body, ref_epoch),
             period)

\* list.sort() of a two-element list
sort(x, y) == IF x <= y THEN <<x, y>> ELSE <<y, x>>

\* a slip: the altitudes taken in the order given
with_apside_altitudes_unsorted(alt1, alt2, i, raan, arg_pe, M0, body, ref_epoch) ==
    LET apo == radius_from_altitude(alt2, body)
        per == radius_from_altitude(alt1, body)
        ae == elements_for_apsides(apo, per)
    IN  IF body.none
        THEN Raise(KeplerianElements(0, 0, i, raan, arg_pe, M0, body,
                                     ref_epoch), "AttributeError")
        ELSE Return(KeplerianElements(ae[1], ae[2], i, raan, arg_pe, M0,
                                      body, ref_epoch))

with_apside_altitudes(alt1, alt2, i, raan, arg_pe, M0, body, ref_epoch) ==
    LET altitudes == sort(alt1, alt2)
        pericenter_altitude == altitudes[1]
        apocenter_altitude == altitudes[2]
        apo == radius_from_altitude(apocenter_altitude, body)
        per == radius_from_altitude(pericenter_altitude, body)
        ae == elements_for_apsides(apo, per)
    IN  IF body.none
        THEN Raise(KeplerianElements(0, 0, i, raan, arg_pe, M0, body,
                                     ref_epoch), "AttributeError")
        ELSE Return(KeplerianElements(ae[1], ae[2], i, raan, arg_pe, M0,
                                      body, ref_epoch))

with_apside_radii(radius1, radius2, i, raan, arg_pe, M0, body, ref_epoch) ==
    LET radii == sort(radius1, radius2)
        per == radii[1]
        apo == radii[2]
        ae == elements_for_apsides(apo, per)
    IN  Return(KeplerianElements(ae[1], ae[2], i, raan, arg_pe, M0, body,
                                 ref_epoch))

(***************************************************************************)
(* The v setter: state vectors -> elements.  Each stage returns the        *)
(* instance as the method has left it, the exception raised (if any), the  *)
(* zero-length vectors whose norm it has divided by, and the locals the    *)
(* properties below read.                                                   *)
(***************************************************************************)
\* 2 * pi - x; NaN stays NaN
Explement(x) == IF x = NaN THEN NaN ELSE TwoPi - x

\* "abs(d) - 1 < 1e-15" on the fixed-point grid, where the smallest positive
\* number is 1 / Scale: the difference x of two grid numbers is < 1e-15
\* exactly when it is <= 0
BelowTolerance(x) == x <= 0

\* lines 192-199: raan and arg_pe
v_setter_node(self, ev, nvec) ==
    LET zero == (IF norm(ev) = 0 THEN {"ev"} ELSE {})
                  \cup (IF norm(nvec) = 0 THEN {"n"} ELSE {})
    IN
    IF self.i = 0
    THEN [self |-> [self EXCEPT
                      !.raan = 0,
                      !.arg_pe = IF norm(ev) = 0 THEN NaN
                                 ELSE acos(Quot(ev[1] * Scale, norm(ev)))],
          exc |-> "none",
          zerodiv |-> zero \ {"n"}]
    ELSE IF norm(nvec) = 0 /\ ev[1] # 0
    THEN \* ev[0] / 0 is +-inf under numpy and math.acos(inf) raises
         [self |-> self, exc |-> "ValueError", zerodiv |-> {"n"}]
    ELSE IF norm(nvec) # 0 /\ AcosDomainError(Quot(ev[1], norm(nvec)))
    THEN [self |-> self, exc |-> "ValueError", zerodiv |-> {}]
    ELSE
    LET raan0 == IF norm(nvec) = 0 THEN NaN
                 ELSE acos(Quot(ev[1], norm(nvec)))
        raan == IF nvec[2] < 0 THEN Explement(raan0) ELSE raan0
        s1 == [self EXCEPT !.raan = raan]
        den == norm(nvec) * norm(ev)
        c == IF den = 0 THEN 0 ELSE Quot(dot(nvec, ev) * Scale, den)
    IN  IF den # 0 /\ AcosDomainError(c)
        THEN [self |-> s1, exc |-> "ValueError", zerodiv |-> {}]
        ELSE [self |-> [s1 EXCEPT
                          !.arg_pe = IF den = 0 THEN NaN ELSE acos(c)],
              exc |-> "none",
              zerodiv |-> zero]

\* lines 201-218: the true anomaly, stored through the f setter
v_setter_anomaly(self, ev, nvec, rvec, v) ==
    IF self.e = 0
    THEN IF self.i = 0
         THEN LET f0 == acos(Quot(rvec[1] * Scale, norm(rvec)))
                  f1 == IF v[1] > 0 THEN TwoPi - f0 ELSE f0
              IN  [self |-> f_setter(self, f1).self, exc |-> "none",
                   zerodiv |-> {}, d |-> 0]
         ELSE LET den == norm(nvec) * norm(rvec)
                  c == IF den = 0 THEN 0
                       ELSE Quot(dot(nvec, rvec) * Scale, den)
                  f0 == acos(c)
                  f1 == IF dot(nvec, v) > 0 THEN TwoPi - f0 ELSE f0
              IN  IF den = 0
                  THEN \* 0 / 0: f and the mean anomaly become NaN
                       [self |-> [self EXCEPT !.M = NaN], exc |-> "none",
                        zerodiv |-> {"n"}, d |-> 0]
                  ELSE IF AcosDomainError(c)
                  THEN [self |-> self, exc |-> "ValueError",
                        zerodiv |-> {}, d |-> 0]
                  ELSE [self |-> f_setter(self, f1).self, exc |-> "none",
                        zerodiv |-> {}, d |-> 0]
    ELSE LET s1 == IF ev[3] < 0
                   THEN [self EXCEPT !.arg_pe = Explement(self.arg_pe)]
                   ELSE self
             d0 == Quot(dot(ev, rvec) * Scale, norm(ev) * norm(rvec))
             d == IF BelowTolerance(Abs(d0) - Scale) THEN sign(d0) * Scale
                  ELSE d0
             f0 == acos(d)
             f1 == IF dot(rvec, v) < 0 THEN TwoPi - f0 ELSE f0
         IN  IF AcosDomainError(d)
             THEN [self |-> s1, exc |-> "ValueError", zerodiv |-> {},
                   d |-> d0]
             ELSE [self |-> f_setter(s1, f1).self, exc |-> "none",
                   zerodiv |-> {}, d |-> d0]

\* line 184: ev = 1 / mu * ((|v|^2 - mu / |r|) r - (r . v) v), scaled by Scale
eccentricity_vector(rvec, v, mu) ==
    LET ev(c1, c2, den) ==
            << Quot(c1 * rvec[1] - c2 * v[1], den),
               Quot(c1 * rvec[2] - c2 * v[2], den),
               Quot(c1 * rvec[3] - c2 * v[3], den) >>
    IN  ev(norm(v) * norm(v) - Quot(mu, norm(rvec)), dot(rvec, v),
           Quot(mu, Scale))

\* lines 175-190, then the two stages
v_setter(self, value) ==
    LET v == value
        mu == self.body.mu
        both(rvec, nvec, node, anom) ==
            [self |-> anom.self, exc |-> anom.exc,
             zerodiv |-> node.zerodiv \cup anom.zerodiv, nvec |-> nvec,
             d |-> anom.d, rdotv |-> dot(rvec, v)]
        \* lines 201-218 run unless lines 192-199 have raised
        after(rvec, nvec, ev, node) ==
            IF node.exc # "none"
            THEN [self |-> node.self, exc |-> node.exc,
                  zerodiv |-> node.zerodiv, nvec |-> nvec, d |-> 0,
                  rdotv |-> dot(rvec, v)]
            ELSE both(rvec, nvec, node,
                      v_setter_anomaly(node.self, ev, nvec, rvec, v))
        \* lines 188-190: self.a, self.e, self.i
        elements(rvec, h, nvec, ev, E) ==
            after(rvec, nvec, ev,
                  v_setter_node(
                      [a_setter(self, Quot(0 - mu, 2 * E)).self EXCEPT
                          !.e = norm(ev),
                          !.i = acos(Quot(h[3] * Scale, norm(h)))],
                      ev, nvec))
        \* lines 177-186: h, n, ev, E
        vectors(rvec, h) ==
            elements(rvec, h, cross(<<0, 0, 1>>, h),
                     eccentricity_vector(rvec, v, mu),
                     Quot(norm(v) * norm(v), 2) - Quot(mu, norm(rvec)))
        position(rvec) == vectors(rvec, cross(rvec, v))
    IN  IF self.body.none
        THEN \* self.body.mu on None, at line 183
             [self |-> self, exc |-> "AttributeError", zerodiv |-> {},
              nvec |-> <<0, 0, 0>>, d |-> 0, rdotv |-> 0]
        ELSE position(r(self))

\* the orbit the state vectors (r(self), value) describe is closed (energy
\* below 0, eccentricity below 1), not rectilinear, and its semimajor axis
\* lies in amin .. amax: the domain of the class
Elliptic(self, value, amin, amax) ==
    LET closed(rvec, E) ==
            /\ norm(cross(rvec, value)) > 0
            /\ E < 0
            /\ Quot(0 - self.body.mu, 2 * E) >= amin
            /\ Quot(0 - self.body.mu, 2 * E) <= amax
            /\ norm(eccentricity_vector(rvec, value, self.body.mu)) < Scale
        from(rvec) ==
            /\ norm(rvec) > 0
            /\ closed(rvec, Quot(norm(value) * norm(value), 2)
                               - Quot(self.body.mu, norm(rvec)))
    IN  from(r(self))

(***************************************************************************)
(* Attribute lookup and pickling.                                          *)
(***************************************************************************)
NoAttributeMessage(name, attr) ==
    "'" \o name \o "' object has no attribute '" \o attr \o "'"

\* __getattr__: called for the names normal lookup does not find
getattr(self, attr) ==
    IF self.body.none
    THEN \* self.body.apoapsis_names on None
         [exc |-> "AttributeError",
          msg |-> NoAttributeMessage("NoneType", "apoapsis_names"),
          value |-> 0]
    ELSE IF \E k \in DOMAIN self.body.apoapsis_names :
                attr = self.body.apoapsis_names[k] \o "_radius"
    THEN [exc |-> "none", msg |-> "", value |-> apocenter_radius(self)]
    ELSE IF \E k \in DOMAIN self.body.periapsis_names :
                attr = self.body.periapsis_names[k] \o "_radius"
    THEN [exc |-> "none", msg |-> "", value |-> pericenter_radius(self)]
    ELSE [exc |-> "AttributeError",
          msg |-> NoAttributeMessage("KeplerianElements", attr),
          value |-> 0]

\* reading self.<attr>: normal lookup finds the two read-only properties,
\* every other name of AttrValues goes to __getattr__
ReadAttribute(self, attr) ==
    IF attr = "apocenter_radius"
    THEN [exc |-> "none", msg |-> "", value |-> apocenter_radius(self)]
    ELSE IF attr = "pericenter_radius"
    THEN [exc |-> "none", msg |-> "", value |-> pericenter_radius(self)]
    ELSE getattr(self, attr)

getstate(self) ==
    [key \in {"_a", "e", "i", "raan", "arg_pe", "M0", "body", "ref_epoch",
              "_M", "_t"} |->
        CASE key = "_a" -> self.a
          [] key = "e" -> self.e
          [] key = "i" -> self.i
          [] key = "raan" -> self.raan
          [] key = "arg_pe" -> self.arg_pe
          [] key = "M0" -> self.M0
          [] key = "body" -> self.body
          [] key = "ref_epoch" -> self.ref_epoch
          [] key = "_M" -> self.M
          [] key = "_t" -> self.t]

\* a slip: the instance rebuilt as __init__ builds it, with M := M0
setstate_via_init(self, state) ==
    [KeplerianElements(state["_a"], state["e"], state["i"], state["raan"],
                       state["arg_pe"], state["M0"], state["body"],
                       state["ref_epoch"])
       EXCEPT !.t = state["_t"]]

setstate(self, state) ==
    [self EXCEPT !.a = state["_a"], !.e = state["e"], !.i = state["i"],
                 !.raan = state["raan"], !.arg_pe = state["arg_pe"],
                 !.M0 = state["M0"], !.body = state["body"],
                 !.ref_epoch = state["ref_epoch"], !.M = state["_M"],
                 !.t = state["_t"]]

\* the instance object.__new__ hands to __setstate__: no attribute is set
Fresh == KeplerianElements(0, 0, 0, 0, 0, 0, NoBody, 0)

(***************************************************************************)
(* The state machine: one instance, and the calls a client makes on it.    *)
(***************************************************************************)
VARIABLES
    ke,         \* the instance: its attributes, _M as M and _t as t
    op,         \* the last call made
    arg,        \* its arguments
    ret,        \* what it returned or raised, and the locals of the v setter
    restored,   \* the instance the last __setstate__ filled in
    steps       \* the number of calls made so far

vars == <<ke, op, arg, ret, restored, steps>>

\* bounds of the model
MaxSteps == 2
MaxT == 2
MinA == 20
MaxA == 150

\* the arguments the calls are made with
AValues == {64, 100}
InitAValues == {100}
EccValues == {0, 50}
IncValues == {0, 7}
M0Values == {0, 5}
BodyValues == {NoBody, earth}
RefEpochValues == {2}
NValues == {7, 14}
PeriodValues == {3, 6}
MValues == {11, 50}
EValues == {11}
FValues == {11, 30}
TValues == 0..MaxT
EpochValues == {0, 3}
VValues == {<<0, 100, 0>>, <<20, 110, 0>>, <<0, 70, 70>>, <<0, 0 - 90, 0>>,
            <<0 - 30, 95, 0>>}
AttrValues == {"apogee_radius", "periapsis_radius", "apocenter_radius",
               "apogee", "foo"}
ApsideValues == {30, 100}
AltitudeValues == {10, 80}

NoArg == [x |-> 0, y |-> 0, vec |-> <<0, 0, 0>>, attr |-> "", body |-> NoBody]
NoRet == [exc |-> "none", msg |-> "", value |-> 0, zerodiv |-> {},
          nvec |-> <<0, 0, 0>>, d |-> 0, rdotv |-> 0]

\* the bookkeeping every call shares
Call(name, a, result) ==
    /\ steps < MaxSteps
    /\ steps' = steps + 1
    /\ op' = name
    /\ arg' = a
    /\ \E res \in {result} :
           /\ ke' = res.self
           /\ ret' = [NoRet EXCEPT !.exc = res.exc]
    /\ restored' = Fresh

Init ==
    /\ \E a \in InitAValues, e \in EccValues, i \in IncValues, M0 \in M0Values,
          body \in BodyValues, ref_epoch \in RefEpochValues :
          ke = KeplerianElements(a, e, i, 0, 0, M0, body, ref_epoch)
    /\ op = "__init__"
    /\ arg = NoArg
    /\ ret = NoRet
    /\ restored = Fresh
    /\ steps = 0

Set_a == \E x \in AValues :
    Call("a", [NoArg EXCEPT !.x = x], a_setter(ke, x))

Set_n == \E x \in NValues :
    Call("n", [NoArg EXCEPT !.x = x], n_setter(ke, x))

Set_T == \E x \in PeriodValues :
    Call("T", [NoArg EXCEPT !.x = x], T_setter(ke, x))

Set_M == \E x \in MValues :
    Call("M", [NoArg EXCEPT !.x = x], M_setter(ke, x))

Set_E == \E x \in EValues :
    Call("E", [NoArg EXCEPT !.x = x], E_setter(ke, x))

Set_f == \E x \in FValues :
    Call("f", [NoArg EXCEPT !.x = x], f_setter(ke, x))

Set_t == \E x \in TValues :
    Call("t", [NoArg EXCEPT !.x = x], t_setter(ke, x))

Set_epoch == \E x \in EpochValues :
    Call("epoch", [NoArg EXCEPT !.x = x], epoch_setter(ke, x))

\* the elements the instance holds are numbers (r is read from them), the
\* state vectors describe an orbit of the class's domain, and the mean
\* anomaly the setter stores is a number
Set_v == \E x \in VValues :
    /\ steps < MaxSteps
    /\ ke.raan # NaN /\ ke.arg_pe # NaN
    /\ \E ok \in {ke.body.none \/ Elliptic(ke, x, MinA, MaxA)} : ok
    /\ \E res \in {v_setter(ke, x)} :
           /\ res.self.M # NaN
           /\ steps' = steps + 1
           /\ op' = "v"
           /\ arg' = [NoArg EXCEPT !.vec = x]
           /\ ke' = res.self
           /\ ret' = [NoRet EXCEPT !.exc = res.exc, !.zerodiv = res.zerodiv,
                                   !.nvec = res.nvec, !.d = res.d,
                                   !.rdotv = res.rdotv]
           /\ restored' = Fresh

Read == \E attr \in AttrValues :
    /\ steps < MaxSteps
    /\ \E res \in {ReadAttribute(ke, attr)} :
        /\ steps' = steps + 1
        /\ op' = "read"
        /\ arg' = [NoArg EXCEPT !.attr = attr]
        /\ ret' = [NoRet EXCEPT !.exc = res.exc, !.msg = res.msg,
                                !.value = res.value]
        /\ restored' = Fresh
        /\ UNCHANGED ke

\* pickle.loads(pickle.dumps(ke)): __getstate__, then __setstate__ on a
\* fresh instance
Pickle ==
    /\ steps < MaxSteps
    /\ steps' = steps + 1
    /\ op' = "pickle"
    /\ arg' = NoArg
    /\ ret' = NoRet
    /\ restored' = setstate(Fresh, getstate(ke))
    /\ UNCHANGED ke

\* the class methods build the instance the client goes on with; one that
\* raises leaves the client with the instance it had
Construct(name, a, result) ==
    Call(name, a, [self |-> IF result.exc = "none" THEN result.self ELSE ke,
                   exc |-> result.exc])

WithPeriod == \E x \in PeriodValues, e \in EccValues :
    Construct("with_period", [NoArg EXCEPT !.x = x, !.body = earth],
              with_period(x, earth, e, 0, 0, 0, 0, ke.ref_epoch))

WithApsideAltitudes ==
    \E x \in AltitudeValues, y \in AltitudeValues, body \in BodyValues :
        Construct("with_apside_altitudes",
                  [NoArg EXCEPT !.x = x, !.y = y, !.body = body],
                  with_apside_altitudes(x, y, 0, 0, 0, 0, body, ke.ref_epoch))

WithApsideRadii ==
    \E x \in ApsideValues, y \in ApsideValues, body \in BodyValues :
        Construct("with_apside_radii",
                  [NoArg EXCEPT !.x = x, !.y = y, !.body = body],
                  with_apside_radii(x, y, 0, 0, 0, 0, body, ke.ref_epoch))

Next ==
    \/ Set_a \/ Set_n \/ Set_T \/ Set_M \/ Set_E \/ Set_f \/ Set_t
    \/ Set_epoch \/ Set_v \/ Read \/ Pickle
    \/ WithPeriod \/ WithApsideAltitudes \/ WithApsideRadii

Spec == Init /\ [][Next]_vars

(***************************************************************************)
(* Properties.                                                             *)
(***************************************************************************)
Constructors ==
    {"__init__", "with_period", "with_apside_altitudes", "with_apside_radii"}

\* M = (M0 + n t) mod 2 pi, with n from the stored a
MeanAnomalyLaw(self) ==
    self.M = mod(self.M0 + n(self) * self.t, TwoPi)

\* C1 as claimed: in every state reached by any sequence of the setters (on
\* an instance with a body, which n needs), M = (M0 + n t) mod 2 pi.
C1_LawInEveryState ==
    (~ke.body.none) => MeanAnomalyLaw(ke)

\* C1, amended: the law holds after construction and whenever the last call
\* was one of the setters a, n, T, t, epoch and returned; the setters M, E, f
\* and v store a mean anomaly without touching M0 or t.
C1_LawAfterAxisOrTimeSetter ==
    (/\ op \in Constructors \cup {"a", "n", "T", "t", "epoch"}
     /\ ret.exc = "none"
     /\ ~ke.body.none)
        => MeanAnomalyLaw(ke)

\* a time setter has acted at a time other than 0 and moved M off M0
C1_Witness ==
    /\ op = "t" /\ ret.exc = "none" /\ ke.t # 0 /\ ke.M # ke.M0

\* C2: a = x (body set) stores x, keeps M and t, and sets M0 to
\* (M_old - n_new t) mod 2 pi with n_new the mean motion of the new a.
C2_SetA ==
    [][(op' = "a" /\ ret'.exc = "none") =>
          /\ ke'.a = arg'.x
          /\ ke'.M = ke.M
          /\ ke'.t = ke.t
          /\ ke'.M0 = mod(ke.M - sqrt(Quot(RadUnit * RadUnit * ke.body.mu,
                                           arg'.x * arg'.x * arg'.x)) * ke.t,
                          TwoPi)]_vars

\* a was set at t # 0 to an axis whose mean motion differs from the one
\* that relates M0 to M under the other axis of AValues
C2_Witness ==
    /\ op = "a" /\ ret.exc = "none" /\ ke.t # 0 /\ ke.M0 # ke.M
    /\ \E x \in AValues :
          mod(ke.M - n([ke EXCEPT !.a = x]) * ke.t, TwoPi) # ke.M0

\* C3: t = x stores t = x, sets M to (M0 + n x) mod 2 pi and keeps M0 and a;
\* epoch = ref_epoch + x does to the instance what t = x does.
C3_SetTime ==
    [][/\ (op' = "t" /\ ret'.exc = "none") =>
             /\ ke'.t = arg'.x
             /\ ke'.M = mod(ke.M0 + n(ke) * arg'.x, TwoPi)
             /\ ke'.M0 = ke.M0
             /\ ke'.a = ke.a
       /\ (op' = "epoch" /\ ret'.exc = "none") =>
             /\ ke'.t = arg'.x - ke.ref_epoch
             /\ ke'.M = mod(ke.M0 + n(ke) * (arg'.x - ke.ref_epoch), TwoPi)
             /\ ke'.M0 = ke.M0
             /\ ke'.a = ke.a
             /\ ke' = t_setter(ke, arg'.x - ke.ref_epoch).self]_vars

\* the epoch was set to one that differs from the time it stands for
C3_Witness ==
    /\ op = "epoch" /\ ret.exc = "none"
    /\ ke.t # arg.x /\ ke.t # 0 /\ ke.M # ke.M0

\* C4: M = x stores x mod 2 pi and changes nothing else; E = x and f = x
\* change only the mean anomaly, to the one converted from x.
C4_SetAnomaly ==
    [][/\ op' = "M" => ke' = [ke EXCEPT !.M = arg'.x % TwoPi]
       /\ op' = "E" =>
             ke' = [ke EXCEPT
                      !.M = mean_anomaly_from_eccentric(ke.e, arg'.x) % TwoPi]
       /\ op' = "f" =>
             ke' = [ke EXCEPT
                      !.M = mean_anomaly_from_true(ke.e, arg'.x) % TwoPi]
      ]_vars

\* M was set to a value beyond 2 pi at a time other than 0
C4_Witness ==
    /\ op = "M" /\ arg.x >= TwoPi /\ ke.t # 0 /\ ke.M # arg.x

\* C5 as claimed: the v setter divides by the norm of no zero-length vector.
C5_NoZeroNormDivision ==
    op = "v" => ret.zerodiv = {}

\* the names normal lookup finds
DefinedAttributes == {"apocenter_radius", "pericenter_radius"}

IsAlias(names, attr) == \E k \in DOMAIN names : attr = names[k] \o "_radius"

\* C6 as claimed: a name that is neither defined nor an apsis alias of the
\* body fails with an AttributeError naming it; an apoapsis (periapsis)
\* alias reads apocenter_radius (pericenter_radius).
C6_GetAttr ==
    (op = "read" /\ arg.attr \notin DefinedAttributes) =>
        IF IsAlias(ke.body.apoapsis_names, arg.attr)
        THEN ret.exc = "none" /\ ret.value = apocenter_radius(ke)
        ELSE IF IsAlias(ke.body.periapsis_names, arg.attr)
        THEN ret.exc = "none" /\ ret.value = pericenter_radius(ke)
        ELSE /\ ret.exc = "AttributeError"
             /\ ret.msg = NoAttributeMessage("KeplerianElements", arg.attr)

\* C7: __setstate__ on a fresh instance with the dictionary of __getstate__
\* gives an instance equal to the original in every attribute.
C7_PickleRoundTrip ==
    op = "pickle" =>
        /\ restored.a = ke.a /\ restored.e = ke.e /\ restored.i = ke.i
        /\ restored.raan = ke.raan /\ restored.arg_pe = ke.arg_pe
        /\ restored.M0 = ke.M0 /\ restored.body = ke.body
        /\ restored.ref_epoch = ke.ref_epoch
        /\ restored.M = ke.M /\ restored.t = ke.t

\* an instance whose M a setter has moved off M0 + n t was pickled
C7_Witness ==
    /\ op = "pickle" /\ ~ke.body.none /\ ~MeanAnomalyLaw(ke) /\ ke.M # ke.M0

Min(x, y) == IF x <= y THEN x ELSE y
Max(x, y) == IF x <= y THEN y ELSE x

\* C8: the apside constructors give the same (a, e) for (x, y) and (y, x),
\* those of pericenter min(x, y) and apocenter max(x, y); equal values are
\* accepted.
C8_ApsideSymmetry ==
    /\ (op = "with_apside_radii") =>
          LET swapped == with_apside_radii(arg.y, arg.x, 0, 0, 0, 0, arg.body,
                                           ke.ref_epoch)
              ae == elements_for_apsides(Max(arg.x, arg.y), Min(arg.x, arg.y))
          IN  /\ ret.exc = "none"
              /\ swapped.exc = "none"
              /\ ke.a = swapped.self.a /\ ke.e = swapped.self.e
              /\ ke.a = ae[1] /\ ke.e = ae[2]
    /\ (op = "with_apside_altitudes" /\ ~arg.body.none) =>
          LET swapped == with_apside_altitudes(arg.y, arg.x, 0, 0, 0, 0,
                                               arg.body, ke.ref_epoch)
              ae == elements_for_apsides(
                        Max(arg.x, arg.y) + arg.body.mean_radius,
                        Min(arg.x, arg.y) + arg.body.mean_radius)
          IN  /\ ret.exc = "none"
              /\ swapped.exc = "none"
              /\ ke.a = swapped.self.a /\ ke.e = swapped.self.e
              /\ ke.a = ae[1] /\ ke.e = ae[2]

\* the altitudes were given apoapsis first
C8_Witness ==
    /\ op = "with_apside_altitudes" /\ ret.exc = "none" /\ arg.x > arg.y
    /\ ke.e > 0

\* C9 as claimed: with a non-zero inclination, raan is acos(n_x / |n|), or
\* 2 pi less that when n_y < 0.
C9_RaanFromNode ==
    (op = "v" /\ ret.exc = "none" /\ ke.i # 0 /\ norm(ret.nvec) # 0) =>
        ke.raan = IF ret.nvec[2] < 0
                  THEN TwoPi - acos(Quot(ret.nvec[1] * Scale, norm(ret.nvec)))
                  ELSE acos(Quot(ret.nvec[1] * Scale, norm(ret.nvec)))

\* C10 as claimed: in the non-circular branch a cosine d with |d| < 1 is
\* used as it is: f = acos(d), or 2 pi - acos(d) when r . v < 0.
C10_CosineUnclamped ==
    (op = "v" /\ ret.exc = "none" /\ ke.e # 0 /\ Abs(ret.d) < Scale) =>
        ke.M = mean_anomaly_from_true(
                   ke.e,
                   IF ret.rdotv < 0 THEN TwoPi - acos(ret.d) ELSE acos(ret.d))

=============================================================================
